---- MODULE Spec2Model ----
\* A model of the rotating file sink of elog (src/elog.go): EasyFileHandler
\* with its Write, Flush and rotateFile methods, over an abstract directory,
\* and of the package-level EasyLogger in front of it: init(), flag.Parse,
\* the callers of its methods, its mutex and its flushDaemon.
\*
\* Bytes are modelled individually: the k-th call of Write carries a payload
\* of bytes all tagged k, so the content of a file is the sequence of the
\* tags of its bytes and "which write is where" can be read off the disk.
\* File names are pairs <<date, i>>: <<D, 0>> stands for P-D.log and
\* <<D, i>> (i > 0) for P-D.log.i.
EXTENDS Integers, Sequences, FiniteSets, TLC

\* ---------------------------------------------------------------- bounds
MaxWrites == 4          \* calls of Write in one behaviour
MaxDayWrites == 6       \* calls of Write in one behaviour of a single fault-free day
MaxDate == 2            \* calendar days the clock runs through
MaxFaults == 2          \* calls during which the file system misbehaves
MaxMsgs == 2            \* calls of Print, Printf and Flush by the callers of the logger

\* ------------------------------------------------- program constants
\* The thresholds of elog.go scaled down to a few bytes.
LOG_MAX_FILE_SIZE == 2        \* elog.go:21 (1 GiB in the source)
LOG_MAX_BUFFER_SIZE == 2      \* elog.go:22 (1 MiB in the source)

LOG_LEVEL_DEBUG == 1          \* elog.go:17
LOG_LEVEL_INFO == 2           \* elog.go:18
LOG_LEVEL_WARN == 3           \* elog.go:19
LOG_LEVEL_ERROR == 4          \* elog.go:20

\* The backup depths the model is checked for; the source fixes 10 (elog.go:23).
RotateNums == {2, 3}
\* The payload sizes a caller passes to Write.
Lens == {1, 3}
\* What time.Now().Format("2006-01-02") returns on the successive days.
DateNames == <<"2006-01-02", "2006-01-03", "2006-01-04", "2006-01-05">>

VARIABLES
    now,                      \* index of the current day: the wall clock
    LOG_MAX_ROTATE_FILE_NUM,  \* the backup depth N, fixed at start
    file,                     \* efh.file
    buffer,                   \* efh.buffer
    currentDate,              \* efh.currentDate
    nbytes,                   \* efh.nbytes
    disk,                     \* the directory efh.path: file name -> content
    stderr,                   \* the lines written to os.Stderr
    wseq,                     \* history: number of calls of Write so far
    hist,                     \* history: the bytes each of those calls accepted
    call,                     \* history: the record of the last call of Write
    live,                     \* history: bytes Write accepted since the last open
    rotated,                  \* history: per completed size rollover, the bytes moved
    faults,                   \* history: calls during which a fault was injected
    mutex,                    \* logger.mutex: TRUE when locked
    pc,                       \* where each goroutine is in Print, Printf or Flush
    parsed,                   \* flag.Parsed()
    logPath,                  \* the variable logPath of init() the flag is bound to
    logLevel,                 \* logger.logLevel
    efhPath,                  \* efh.path
    nmsg,                     \* history: calls the callers of the logger have made
    msgs                      \* history: per logged message, its calls of Write

\* The sink and its directory, the logger in front of it, and all of them.
sinkvars == <<now, LOG_MAX_ROTATE_FILE_NUM, file, buffer, currentDate, nbytes, disk,
              stderr, wseq, hist, call, live, rotated, faults>>
logvars == <<mutex, pc, parsed, logPath, logLevel, efhPath, nmsg, msgs>>
vars == <<sinkvars, logvars>>

\* ------------------------------------------------------------- values
\* efh.file: nil, an open *os.File, or a non-nil *os.File that was closed.
NilFile == [st |-> "nil", date |-> ""]
OpenFile(date) == [st |-> "open", date |-> date]
\* efh.buffer: nil, or a bufio.Writer with its pending bytes and sticky error.
NilBuffer == [alloc |-> FALSE, buf |-> <<>>, err |-> FALSE]
NewWriterSize == [alloc |-> TRUE, buf |-> <<>>, err |-> FALSE]

\* The file system's behaviour during one call: write says that the writes
\* to the file fail, op names the operation that fails ("none", "close",
\* "remove", "rename", "open", or "stat" for a stat that fails with an error
\* other than not-exist), at names the index whose rename fails.
NoFault == [write |-> FALSE, op |-> "none", at |-> 0]
Faults(n) ==
    {[write |-> w, op |-> o, at |-> 0] :
        w \in BOOLEAN, o \in {"none", "close", "remove", "open", "stat"}}
    \cup {[write |-> w, op |-> "rename", at |-> i] : w \in BOOLEAN, i \in 0..(n - 2)}

\* Op(x). The result x of a call is handed to the step Op that follows it
\* as a value, so that it is computed once however often Op reads it.
Apply(Op(_), x) == CHOOSE y \in {Op(v) : v \in {x}} : TRUE

Range(s) == {s[i] : i \in 1..Len(s)}
Take(s, n) == SubSeq(s, 1, n)
Drop(s, n) == SubSeq(s, n + 1, Len(s))

\* ------------------------------------------------------- environment
getTimeNowDate == DateNames[now]

\* P-date.log for i = 0, P-date.log.i otherwise.
logFilePath(date, i) == <<date, i>>

\* True when os.Stat succeeds or fails with an error other than not-exist.
fileIsExist(d, path, F) == path \in DOMAIN d \/ F.op = "stat"

\* d without the file path.
Without(d, path) == [p \in DOMAIN d \ {path} |-> d[p]]
\* d with the file path holding content c.
With(d, path, c) == [p \in DOMAIN d \cup {path} |-> IF p = path THEN c ELSE d[p]]

\* os.Remove: fails on a name that does not exist.
osRemove(d, path, F) ==
    IF F.op = "remove" \/ path \notin DOMAIN d
    THEN [disk |-> d, err |-> "remove"]
    ELSE [disk |-> Without(d, path), err |-> ""]

\* os.Rename: replaces newpath when it exists, fails when oldpath does not.
osRename(d, oldpath, newpath, i, F) ==
    IF (F.op = "rename" /\ F.at = i) \/ oldpath \notin DOMAIN d
    THEN [disk |-> d, err |-> "rename"]
    ELSE [disk |-> With(Without(d, oldpath), newpath, d[oldpath]), err |-> ""]

\* (*os.File).Close: ErrInvalid on nil, ErrClosed on a closed file; the
\* descriptor is released also when close reports an error.
fileClose(f, F) ==
    IF f.st = "nil" THEN [file |-> f, err |-> "invalid argument"]
    ELSE IF f.st = "closed" THEN [file |-> f, err |-> "file already closed"]
    ELSE IF F.op = "close" THEN [file |-> [f EXCEPT !.st = "closed"], err |-> "close"]
    ELSE [file |-> [f EXCEPT !.st = "closed"], err |-> ""]

\* (*os.File).Write through the handle f, opened with O_APPEND.
fileWrite(f, d, p, F) ==
    IF f.st = "open" /\ ~F.write
    THEN [disk |-> [d EXCEPT ![logFilePath(f.date, 0)] = @ \o p], n |-> Len(p), ok |-> TRUE]
    ELSE [disk |-> d, n |-> 0, ok |-> FALSE]

\* Flush without b.n = 0 after the bytes were written.
bufFlush_keepsBuffer(b, f, d, F) ==
    IF b.err \/ b.buf = <<>> THEN [buffer |-> b, disk |-> d]
    ELSE LET w == fileWrite(f, d, b.buf, F)
         IN  IF w.ok THEN [buffer |-> b, disk |-> w.disk]
             ELSE [buffer |-> [b EXCEPT !.err = TRUE], disk |-> d]

\* (*bufio.Writer).Flush; f is the handle the writer was made over.
bufFlush(b, f, d, F) ==
    IF b.err \/ b.buf = <<>> THEN [buffer |-> b, disk |-> d]
    ELSE LET w == fileWrite(f, d, b.buf, F)
         IN  IF w.ok THEN [buffer |-> [b EXCEPT !.buf = <<>>], disk |-> w.disk]
             ELSE [buffer |-> [b EXCEPT !.err = TRUE], disk |-> d]

\* (*bufio.Writer).Write
\* b.Available()
Available(b) == LOG_MAX_BUFFER_SIZE - Len(b.buf)

\* One turn of the loop of Write: with nothing buffered p goes straight to
\* the file (result w), otherwise the buffer is filled up from p and flushed
\* (result fl). The turn leaves the writer b, the directory d, the rest p of
\* the payload and the count nn of the bytes taken.
direct(b, p, nn, w) ==
    [b |-> [b EXCEPT !.err = ~w.ok], d |-> w.disk, p |-> Drop(p, w.n), nn |-> nn + w.n]
filled(b, p, nn, fl) ==
    [b |-> fl.buffer, d |-> fl.disk, p |-> Drop(p, Available(b)), nn |-> nn + Available(b)]
turn(b, f, d, p, nn, F) ==
    IF b.buf = <<>>
    THEN Apply(LAMBDA w : direct(b, p, nn, w), fileWrite(f, d, p, F))
    ELSE Apply(LAMBDA fl : filled(b, p, nn, fl),
               bufFlush([b EXCEPT !.buf = @ \o Take(p, Available(b))], f, d, F))

RECURSIVE bufWrite(_, _, _, _, _, _)
bufWrite(b, f, d, p, nn, F) ==
    IF Len(p) > Available(b) /\ ~b.err
    THEN Apply(LAMBDA t : bufWrite(t.b, f, t.d, t.p, t.nn, F), turn(b, f, d, p, nn, F))
    ELSE IF b.err
    THEN [buffer |-> b, disk |-> d, n |-> nn, err |-> "write"]
    ELSE [buffer |-> [b EXCEPT !.buf = @ \o p], disk |-> d, n |-> nn + Len(p), err |-> ""]

\* ------------------------------------------------------------ the sink
\* The methods are written as operators on a record s of the fields of the
\* sink, the directory (disk), the error being returned (err, "" for nil),
\* the trace of the file operations of the rotation check (ops) and the
\* history of the bytes accepted for the open file (live). The result of a
\* call is handed on as an argument, so every step reads it once.

\* One entry of the trace of file operations a rotation check performs:
\* blk is the part of rotateFile that issued it ("date", "size" or "open"),
\* over says that a rename replaced an existing file.
Op(o, blk, path, ok, over) ==
    [op |-> o, blk |-> blk, path |-> path, ok |-> ok, over |-> over]

\* efh.buffer.Flush(), its result fl dropped but for its effects.
afterFlush(s, fl, blk) ==
    [s EXCEPT !.buffer = fl.buffer, !.disk = fl.disk,
              !.ops = Append(@, Op("flush", blk, logFilePath(s.file.date, 0),
                                   ~fl.buffer.err, FALSE))]

\* err = efh.file.Close(); if err != nil { return err }; efh.file = nil
afterClose(s, cl, blk) ==
    [s EXCEPT !.file = IF cl.err # "" THEN cl.file ELSE NilFile,
              !.err = cl.err,
              !.ops = Append(@, Op("close", blk, logFilePath(s.file.date, 0),
                                   cl.err = "", FALSE))]

closeFile(s, blk, F) == Apply(LAMBDA cl : afterClose(s, cl, blk), fileClose(s.file, F))

\* efh.buffer.Flush() followed by efh.file.Close(): the error of Flush is
\* dropped, the error of Close is returned with efh.file left as it is, and
\* efh.file becomes nil when Close succeeds. Flush on a nil buffer panics.
flushAndClose(s, blk, F) ==
    IF ~s.buffer.alloc THEN [s EXCEPT !.err = "panic"]
    ELSE Apply(LAMBDA t : closeFile(t, blk, F),
               Apply(LAMBDA fl : afterFlush(s, fl, blk), bufFlush(s.buffer, s.file, s.disk, F)))

\* efh.currentDate = date, reached when the Close did not return.
setCurrentDate(s, date) ==
    IF s.err # "" THEN s ELSE [s EXCEPT !.currentDate = date]

\* if efh.currentDate != date { ... }
dateRollover(s, date, F) ==
    IF s.currentDate # date
    THEN Apply(LAMBDA t : setCurrentDate(t, date),
               IF s.file # NilFile THEN flushAndClose(s, "date", F) ELSE s)
    ELSE s

\* efh.nbytes > LOG_MAX_FILE_SIZE
sizeExceeded_orEqual(n) == n >= LOG_MAX_FILE_SIZE
sizeExceeded(n) == n > LOG_MAX_FILE_SIZE

\* The condition of the loop  for i := ...; i >= 0; i--
shiftContinues_skipLive(i) == i > 0
shiftContinues(i) == i >= 0

\* err := os.Rename(logFilePath, logFileNewPath), with its result r.
afterRename(s, r, date, i) ==
    [s EXCEPT !.disk = r.disk,
              !.err = r.err,
              !.ops = Append(@, Op("rename", "size", logFilePath(date, i), r.err = "",
                                   logFilePath(date, i + 1) \in DOMAIN s.disk))]

\* One turn of the loop: rename the backup at index i when it exists.
shiftOne(s, date, i, F) ==
    IF fileIsExist(s.disk, logFilePath(date, i), F)
    THEN Apply(LAMBDA r : afterRename(s, r, date, i),
               osRename(s.disk, logFilePath(date, i), logFilePath(date, i + 1), i, F))
    ELSE s

\* The loop over the backups, from index i down; an error returns.
RECURSIVE shiftChain(_, _, _, _)
shiftChain(s, date, i, F) ==
    IF s.err # "" \/ ~shiftContinues(i) THEN s
    ELSE Apply(LAMBDA t : shiftChain(t, date, i - 1, F), shiftOne(s, date, i, F))

\* The same loop run upwards, from index i to index last.
RECURSIVE shiftChainUp(_, _, _, _, _)
shiftChainUp(s, date, i, last, F) ==
    IF s.err # "" \/ i > last THEN s
    ELSE Apply(LAMBDA t : shiftChainUp(t, date, i + 1, last, F), shiftOne(s, date, i, F))

\* The order in which the loop visits the backups below index oldest.
shiftFrom_ascending(s, date, oldest, F) == shiftChainUp(s, date, 0, oldest - 1, F)
shiftFrom(s, date, oldest, F) == shiftChain(s, date, oldest - 1, F)

\* err = os.Remove(logFilePath), with its result r.
afterRemove(s, r, date, oldest) ==
    [s EXCEPT !.disk = r.disk,
              !.err = r.err,
              !.ops = Append(@, Op("remove", "size", logFilePath(date, oldest), r.err = "",
                                   FALSE))]

\* Remove the backup at index oldest when it exists.
removeOldest(s, date, oldest, F) ==
    IF fileIsExist(s.disk, logFilePath(date, oldest), F)
    THEN Apply(LAMBDA r : afterRemove(s, r, date, oldest),
               osRemove(s.disk, logFilePath(date, oldest), F))
    ELSE s

\* Remove the backup at index oldest when it exists, then shift the others.
backupChain(s, date, oldest, F) ==
    IF s.err # "" THEN s
    ELSE Apply(LAMBDA t : shiftFrom(t, date, oldest, F), removeOldest(s, date, oldest, F))

\* The oldest backup is the one at index LOG_MAX_ROTATE_FILE_NUM-1.
rotateBackups_oneDeeper(s, date, F, n) == backupChain(s, date, n, F)
rotateBackups(s, date, F, n) == backupChain(s, date, n - 1, F)

\* if efh.nbytes > LOG_MAX_FILE_SIZE { ... }
sizeRollover(s, date, F, n) ==
    IF s.err = "" /\ sizeExceeded(s.nbytes)
    THEN Apply(LAMBDA t : rotateBackups(t, date, F, n), flushAndClose(s, "size", F))
    ELSE s

\* if efh.file == nil { ... }: os.OpenFile with O_RDWR|O_CREATE|O_APPEND.
\* live is the history of the bytes accepted for the file that is open.
openIfNeeded(s, date, F) ==
    IF s.err = "" /\ s.file = NilFile
    THEN IF F.op = "open"
         THEN [s EXCEPT !.err = "open",
                        !.ops = Append(@, Op("open", "open", logFilePath(date, 0),
                                             FALSE, FALSE))]
         ELSE [s EXCEPT !.file = OpenFile(date),
                        !.disk = IF logFilePath(date, 0) \in DOMAIN @ THEN @
                                 ELSE With(@, logFilePath(date, 0), <<>>),
                        !.nbytes = 0,
                        !.buffer = NewWriterSize,
                        !.live = <<>>,
                        !.ops = Append(@, Op("open", "open", logFilePath(date, 0),
                                             TRUE, FALSE))]
    ELSE s

\* func (efh *EasyFileHandler) rotateFile() error
rotateFile(s, date, F, n) ==
    Apply(LAMBDA t : openIfNeeded(t, date, F),
          Apply(LAMBDA t : sizeRollover(t, date, F, n), dateRollover(s, date, F)))

\* os.Stderr.WriteString(err.Error() + "\n"); return 0, err
rejected(r) ==
    [sink |-> r, n |-> 0, err |-> r.err, stderr |-> <<r.err>>, checked |-> r.nbytes]

\* efh.buffer.Write(data) on a nil *bufio.Writer: the runtime reports the nil
\* pointer dereference on stderr and the program ends.
panicked(r) ==
    [sink |-> r, n |-> 0, err |-> "panic", stderr |-> <<"panic">>, checked |-> r.nbytes]

\* return efh.buffer.Write(data), with its result w.
accepted(r, w, data) ==
    [sink |-> [r EXCEPT !.buffer = w.buffer, !.disk = w.disk,
                        !.live = @ \o Take(data, w.n)],
     n |-> w.n, err |-> w.err, stderr |-> <<>>, checked |-> r.nbytes - Len(data)]

\* efh.nbytes += len(data)
count(r, data) == [r EXCEPT !.nbytes = @ + Len(data)]

\* The same with the counter incremented before the error of rotateFile is
\* looked at.
afterRotate_countsRejected(r, data, F) ==
    IF r.err # "" THEN rejected(count(r, data))
    ELSE IF ~r.buffer.alloc THEN panicked(count(r, data))
    ELSE Apply(LAMBDA w : accepted(count(r, data), w, data),
               bufWrite(r.buffer, r.file, r.disk, data, 0, F))

\* Write after the rotation check, whose result is r.
afterRotate(r, data, F) ==
    IF r.err # "" THEN rejected(r)
    ELSE IF ~r.buffer.alloc THEN panicked(count(r, data))
    ELSE Apply(LAMBDA w : accepted(count(r, data), w, data),
               bufWrite(r.buffer, r.file, r.disk, data, 0, F))

\* func (efh *EasyFileHandler) Write(data []byte) (int, error)
efhWrite(s, data, date, F, n) ==
    Apply(LAMBDA r : afterRotate(r, data, F), rotateFile(s, date, F, n))

\* func (efh *EasyFileHandler) Flush()
\* Flush that also starts the byte counter again.
afterEfhFlush_resets(s, fl) == [s EXCEPT !.buffer = fl.buffer, !.disk = fl.disk, !.nbytes = 0]

afterEfhFlush(s, fl) == [s EXCEPT !.buffer = fl.buffer, !.disk = fl.disk]

\* Flush that writes the buffer out only when it is full.
flushBuffer_whenFull(s, F) ==
    IF ~s.buffer.alloc THEN [s EXCEPT !.err = "panic"]
    ELSE IF Len(s.buffer.buf) < LOG_MAX_BUFFER_SIZE THEN s
    ELSE Apply(LAMBDA fl : afterEfhFlush(s, fl), bufFlush(s.buffer, s.file, s.disk, F))

\* efh.buffer.Flush(); on a nil *bufio.Writer it is a nil pointer dereference.
flushBuffer(s, F) ==
    IF ~s.buffer.alloc THEN [s EXCEPT !.err = "panic"]
    ELSE Apply(LAMBDA fl : afterEfhFlush(s, fl), bufFlush(s.buffer, s.file, s.disk, F))

\* Flush without the test of efh.file.
efhFlush_unguarded(s, F) == flushBuffer(s, F)

efhFlush(s, F) == IF s.file # NilFile THEN flushBuffer(s, F) ELSE s

\* ---------------------------------------------------------- the machine
\* The sink as the methods see it on entry.
Sink ==
    [file |-> file, buffer |-> buffer, currentDate |-> currentDate, nbytes |-> nbytes,
     disk |-> disk, live |-> live, err |-> "", ops |-> <<>>]

\* The program has ended with a runtime panic.
Panicked == \E k \in 1..Len(stderr) : stderr[k] = "panic"

\* What a call of Write found on entry.
Pre ==
    [file |-> file, currentDate |-> currentDate, nbytes |-> nbytes, live |-> live,
     nerr |-> Len(stderr)]

\* The goroutines that use the package-level logger: two callers of Print,
\* Printf and Flush, and the flushDaemon that init() starts.
Callers == {"caller1", "caller2"}
Daemon == "flushDaemon"
Procs == Callers \cup {Daemon}

\* A goroutine outside the logger; the daemon blocked on its ticker. kind is
\* the method being run and first the number of the Write of its header.
Idle == [at |-> "idle", kind |-> "", first |-> 0]
Waiting == [at |-> "wait", kind |-> "Flush", first |-> 0]

\* The command lines flag.Parse is given: none of the flags, or both
\* -logPath and -logLevel.
DefaultFlags == [logPath |-> "./", logLevel |-> "INFO"]
FlagValues == {DefaultFlags, [logPath |-> "/var/log/", logLevel |-> "WARN"]}

\* The levels the callers log at, the sizes of a header and of a body.
Levels == {LOG_LEVEL_INFO, LOG_LEVEL_ERROR}
HeaderLens == {1}

\* func getLogLevelInt(level string) int
getLogLevelInt(level) ==
    IF level = "DEBUG" THEN LOG_LEVEL_DEBUG
    ELSE IF level = "INFO" THEN LOG_LEVEL_INFO
    ELSE IF level = "WARN" THEN LOG_LEVEL_WARN
    ELSE IF level = "ERROR" THEN LOG_LEVEL_ERROR
    ELSE LOG_LEVEL_INFO

\* The handler's path is the path it was made with.
NewEasyFileHandler(p) == p

\* func init(): the flags are declared with their defaults, the sink is made
\* from the value logPath has then, and the daemon is started.
pkgInit ==
    /\ parsed = FALSE
    /\ logPath = DefaultFlags.logPath
    /\ logLevel = DefaultFlags.logLevel
    /\ efhPath = NewEasyFileHandler(DefaultFlags.logPath)
    /\ mutex = FALSE
    /\ pc = [p \in Procs |-> IF p = Daemon THEN Waiting ELSE Idle]
    /\ nmsg = 0
    /\ msgs = <<>>

\* NewEasyFileHandler, in an empty directory, and the logger over it.
Init ==
    /\ pkgInit
    /\ now = 1
    /\ LOG_MAX_ROTATE_FILE_NUM \in RotateNums
    /\ file = NilFile
    /\ buffer = NilBuffer
    /\ currentDate = ""
    /\ nbytes = 0
    /\ disk = <<>>
    /\ stderr = <<>>
    /\ wseq = 0
    /\ hist = <<>>
    /\ live = <<>>
    /\ rotated = <<>>
    /\ faults = 0
    /\ call = [fault |-> NoFault, n |-> 0, err |-> "", rotErr |-> "",
               ops |-> <<>>, date |-> "", prevRotErr |-> "", checked |-> 0,
               pre |-> [file |-> NilFile, currentDate |-> "", nbytes |-> 0,
                        live |-> <<>>, nerr |-> 0]]

\* The payload of the next call of Write: len bytes tagged with its number.
Data(len) == [k \in 1..len |-> wseq + 1]

\* A call is charged to the fault budget when the fault changes its outcome.
Charged(r, clean) == IF r = clean THEN 0 ELSE 1

\* The rotation check whose trace is ops completed a size rollover.
Rolled(r) == r.sink.err = "" /\ \E k \in 1..Len(r.sink.ops) : r.sink.ops[k].blk = "size"

\* The effect of a call of Write with result r on the variables; charged is 1
\* when the behaviour F of the file system changed the call.
WriteDone(r, charged, F) ==
    /\ ~Panicked
    /\ faults + charged <= MaxFaults
    /\ faults' = faults + charged
    /\ hist' = Append(hist, r.n)
    /\ file' = r.sink.file
    /\ buffer' = r.sink.buffer
    /\ currentDate' = r.sink.currentDate
    /\ nbytes' = r.sink.nbytes
    /\ disk' = r.sink.disk
    /\ live' = r.sink.live
    /\ stderr' = stderr \o r.stderr
    /\ rotated' = IF Rolled(r) THEN Append(rotated, live) ELSE rotated
    /\ call' = [fault |-> IF charged = 1 THEN F ELSE NoFault, n |-> r.n, err |-> r.err,
                rotErr |-> r.sink.err, ops |-> r.sink.ops, pre |-> Pre,
                date |-> getTimeNowDate, checked |-> r.checked,
                prevRotErr |-> IF wseq = 0 THEN "" ELSE call.rotErr]
    /\ wseq' = wseq + 1
    /\ UNCHANGED <<now, LOG_MAX_ROTATE_FILE_NUM>>

\* One call of Write with a payload of len bytes, the file system behaving as F.
Write(len, F) ==
    \E r \in {efhWrite(Sink, Data(len), getTimeNowDate, F, LOG_MAX_ROTATE_FILE_NUM)} :
        \E clean \in {efhWrite(Sink, Data(len), getTimeNowDate, NoFault,
                               LOG_MAX_ROTATE_FILE_NUM)} :
            WriteDone(r, Charged(r, clean), F)

\* The effect of a call of Flush with result r on the variables.
FlushDone(r, charged) ==
    /\ ~Panicked
    /\ faults + charged <= MaxFaults
    /\ faults' = faults + charged
    /\ file' = r.file
    /\ buffer' = r.buffer
    /\ currentDate' = r.currentDate
    /\ nbytes' = r.nbytes
    /\ disk' = r.disk
    /\ live' = r.live
    /\ stderr' = IF r.err = "panic" THEN Append(stderr, "panic") ELSE stderr
    /\ UNCHANGED <<now, LOG_MAX_ROTATE_FILE_NUM, wseq, hist, call, rotated>>

\* One call of Flush, the writes to the file failing when failing is true.
Flush(failing) ==
    \E r \in {efhFlush(Sink, [NoFault EXCEPT !.write = failing])} :
        \E clean \in {efhFlush(Sink, NoFault)} :
            FlushDone(r, Charged(r, clean))

\* Midnight: the next call of getTimeNowDate returns the next date.
Tick ==
    /\ now < MaxDate
    /\ now' = now + 1
    /\ UNCHANGED <<LOG_MAX_ROTATE_FILE_NUM, file, buffer, currentDate, nbytes, disk,
                   stderr, wseq, hist, call, live, rotated, faults>>
    /\ UNCHANGED logvars

\* The sink used directly, with no logger in front of it.
DoWrite ==
    /\ wseq < MaxWrites
    /\ \E len \in Lens : \E F \in Faults(LOG_MAX_ROTATE_FILE_NUM) : Write(len, F)
    /\ UNCHANGED logvars
DoFlush ==
    /\ \E failing \in BOOLEAN : Flush(failing)
    /\ UNCHANGED logvars

Next == DoWrite \/ DoFlush \/ Tick

\* The sink under every interleaving of writes, flushes, midnights and faults.
Spec == Init /\ [][Next]_vars

\* The sink during one day on a file system that performs every operation.
DayWrite ==
    /\ wseq < MaxDayWrites
    /\ \E len \in Lens : Write(len, NoFault)
    /\ UNCHANGED logvars
DayFlush == Flush(FALSE) /\ UNCHANGED logvars

NextDay == DayWrite \/ DayFlush

SpecDay == Init /\ [][NextDay]_vars

\* ----------------------------------------------------------- the logger
\* The package-level logger (depth LOG_DEPTH_GLOBAL, logToStderr left at its
\* default false) over the sink, on a file system that performs every
\* operation. Each call of Write or Flush on the sink is one step.
At(p, l) == pc[p].at = l
Goto(p, l) == pc' = [pc EXCEPT ![p].at = l]

\* flag.Parse()
FlagParse ==
    /\ ~parsed
    /\ parsed' = TRUE
    /\ \E v \in FlagValues : logPath' = v.logPath /\ logLevel' = v.logLevel
    /\ UNCHANGED <<sinkvars, mutex, pc, efhPath, nmsg, msgs>>

\* The sink and the logger's fields a call leaves alone before it locks.
entryFrame ==
    <<now, LOG_MAX_ROTATE_FILE_NUM, file, buffer, currentDate, nbytes, disk, wseq, hist,
      call, live, rotated, faults, mutex, parsed, logPath, logLevel, efhPath, msgs>>

\* Print and Printf up to el.mutex.Lock(): the message is dropped before
\* flag.Parse and below the level of the logger. max bounds the calls made.
Enter(p, kind, level, max) ==
    /\ At(p, "idle")
    /\ nmsg < max
    /\ nmsg' = nmsg + 1
    /\ IF ~parsed
       THEN stderr' = Append(stderr, "ERROR: logging before flag.Parse") /\ UNCHANGED pc
       ELSE IF level < getLogLevelInt(logLevel)
       THEN UNCHANGED <<stderr, pc>>
       ELSE /\ pc' = [pc EXCEPT ![p] = [at |-> "lock", kind |-> kind, first |-> 0]]
            /\ UNCHANGED stderr
    /\ UNCHANGED entryFrame

\* func (el *EasyLogger) Flush(), up to el.mutex.Lock()
EnterFlush(p, max) ==
    /\ At(p, "idle")
    /\ nmsg < max
    /\ nmsg' = nmsg + 1
    /\ pc' = [pc EXCEPT ![p] = [at |-> "lock", kind |-> "Flush", first |-> 0]]
    /\ UNCHANGED <<stderr, entryFrame>>

\* The ticker of flushDaemon delivers: the daemon calls el.Flush().
Fire ==
    /\ At(Daemon, "wait")
    /\ Goto(Daemon, "lock")
    /\ UNCHANGED <<sinkvars, mutex, parsed, logPath, logLevel, efhPath, nmsg, msgs>>

\* Lock returns without regard to the state of the mutex.
tryLock_always(m) == TRUE

\* sync.Mutex: Lock returns when the mutex is unlocked.
tryLock(m) == ~m

\* el.mutex.Lock()
Lock(p) ==
    /\ At(p, "lock")
    /\ tryLock(mutex)
    /\ mutex' = TRUE
    /\ Goto(p, IF pc[p].kind = "Flush" THEN "flush" ELSE "header")
    /\ UNCHANGED <<sinkvars, parsed, logPath, logLevel, efhPath, nmsg, msgs>>

\* The logger's fields a call of the sink leaves alone.
sinkCallFrame == <<mutex, parsed, logPath, logLevel, efhPath, nmsg, msgs>>

\* el.getHeader(level, el.writer): one Fprintf, one Write of the sink.
Header(p) ==
    /\ At(p, "header")
    /\ \E len \in HeaderLens : Write(len, NoFault)
    /\ pc' = [pc EXCEPT ![p].at = "body", ![p].first = wseq + 1]
    /\ UNCHANGED sinkCallFrame

\* fmt.Fprintln(el.writer, args...) of Print, fmt.Fprintf(el.writer, format,
\* args...) of Printf: one more Write of the sink.
Body(p) ==
    /\ At(p, "body")
    /\ \E len \in Lens : Write(len, NoFault)
    /\ Goto(p, IF pc[p].kind = "Printf" THEN "newline" ELSE "unlock")
    /\ UNCHANGED sinkCallFrame

\* el.writer.Write([]byte("\n")) of Printf
Newline(p) ==
    /\ At(p, "newline")
    /\ Write(Len(<<"\n">>), NoFault)
    /\ Goto(p, "unlock")
    /\ UNCHANGED sinkCallFrame

\* el.writer.Flush()
SinkFlush(p) ==
    /\ At(p, "flush")
    /\ Flush(FALSE)
    /\ Goto(p, "unlock")
    /\ UNCHANGED sinkCallFrame

\* The calls of Write a message made: from its header to the last one.
Logged(p) == [kind |-> pc[p].kind, first |-> pc[p].first, last |-> wseq]

\* el.mutex.Unlock(), deferred in Print and Printf, and the return.
Unlock(p) ==
    /\ At(p, "unlock")
    /\ mutex' = FALSE
    /\ pc' = [pc EXCEPT ![p] = IF p = Daemon THEN Waiting ELSE Idle]
    /\ msgs' = IF pc[p].kind = "Flush" THEN msgs ELSE Append(msgs, Logged(p))
    /\ UNCHANGED <<sinkvars, parsed, logPath, logLevel, efhPath, nmsg>>

\* A caller calls Print, Printf or Flush, at most max calls being made.
Calls(p, max) ==
    \/ \E kind \in {"Print", "Printf"} : \E level \in Levels : Enter(p, kind, level, max)
    \/ EnterFlush(p, max)

\* A caller that has entered Print, Printf or Flush goes on to its return.
Finish(p) == Lock(p) \/ Header(p) \/ Body(p) \/ Newline(p) \/ SinkFlush(p) \/ Unlock(p)

\* What a caller does, and what the daemon does.
CallerStep(p) == Calls(p, MaxMsgs) \/ Finish(p)
DaemonStep == Fire \/ Lock(Daemon) \/ SinkFlush(Daemon) \/ Unlock(Daemon)

NextLog == FlagParse \/ (\E p \in Callers : CallerStep(p)) \/ DaemonStep \/ Tick

\* The logger with its callers and its daemon under every interleaving.
SpecLog == Init /\ [][NextLog]_vars

\* The ticker keeps delivering and the scheduler runs every goroutine that
\* can run; no caller is required to log again.
Fairness == WF_vars(DaemonStep) /\ \A p \in Callers : WF_vars(Finish(p))

\* The logger with a fair flush daemon, its callers making one call less.
MaxLiveMsgs == MaxMsgs - 1
LiveStep(p) == Calls(p, MaxLiveMsgs) \/ Finish(p)
NextLive == FlagParse \/ (\E p \in Callers : LiveStep(p)) \/ DaemonStep \/ Tick
SpecLive == Init /\ [][NextLive]_vars /\ Fairness

\* ------------------------------------------------------------- claims
\* The tags of the bytes that are in some file of the directory.
OnDisk == UNION {Range(disk[p]) : p \in DOMAIN disk}
\* The indices of the files that exist for date.
FilesOf(date) == {p[2] : p \in {q \in DOMAIN disk : q[1] = date}}
Dates == {DateNames[i] : i \in 1..MaxDate}
\* The positions in the trace of the last rotation check of the operations
\* of kind o issued by the part blk of rotateFile.
OpsAt(o, blk) == {k \in 1..Len(call.ops) : call.ops[k].op = o /\ call.ops[k].blk = blk}
\* The errors an injected fault makes the rotation check return.
InjectedErrors == {"close", "remove", "rename", "open"}

\* The code never calls Flush on a nil buffer in the rotation check.
NoNilBufferFlush == call.rotErr # "panic"

\* C1: a Write on day D2 that finds the file of day D1 # D2 open, with bytes
\* accepted on D1, succeeds on a faultless file system whatever the byte
\* counter is: the two live files P-D1.log and P-D2.log exist afterwards, and
\* the D1 file is flushed and closed before the D2 file is opened.
C1_DateRolloverAnyCounter ==
    (/\ wseq >= 2
     /\ faults = 0
     /\ call.pre.file.st = "open"
     /\ call.pre.file.date # call.date
     /\ call.pre.live # <<>>)
    => /\ call.err = ""
       /\ logFilePath(call.pre.file.date, 0) \in DOMAIN disk
       /\ logFilePath(call.date, 0) \in DOMAIN disk
       /\ \E f \in OpsAt("flush", "date") : \E c \in OpsAt("close", "date") :
            \E o \in OpsAt("open", "open") :
               /\ f < c /\ c < o
               /\ call.ops[c].ok /\ call.ops[o].ok
               /\ call.ops[c].path = logFilePath(call.pre.file.date, 0)
               /\ call.ops[o].path = logFilePath(call.date, 0)

\* The same statement for a byte counter that is not above the threshold:
\* this much the code does.
DateRolloverBelowThreshold ==
    (call.pre.nbytes <= LOG_MAX_FILE_SIZE) => C1_DateRolloverAnyCounter

\* C2: after a Write whose rotation check rolled the file over (by date or by
\* size) and returned no error, the bytes accepted for the old file are the
\* content of exactly one file, and no other file holds any of them.
C2_NoDataLossAcrossRotation ==
    (/\ wseq >= 1
     /\ call.rotErr = ""
     /\ OpsAt("close", "date") \cup OpsAt("close", "size") # {}
     /\ call.pre.live # <<>>)
    => \E p \in DOMAIN disk :
          /\ disk[p] = call.pre.live
          /\ \A q \in DOMAIN disk \ {p} : Range(disk[q]) \cap Range(call.pre.live) = {}

\* The same statement for the behaviours in which the file system performed
\* every operation: this much the code does.
NoDataLossFaultless ==
    (faults = 0) => C2_NoDataLossAcrossRotation

\* C3: in every reachable state, for every date, at most
\* LOG_MAX_ROTATE_FILE_NUM files exist and each has an index below
\* LOG_MAX_ROTATE_FILE_NUM.
C3_ChainDepth ==
    \A d \in Dates :
        /\ Cardinality(FilesOf(d)) <= LOG_MAX_ROTATE_FILE_NUM
        /\ \A i \in FilesOf(d) : 0 <= i /\ i < LOG_MAX_ROTATE_FILE_NUM

\* A size rollover found the chain full, removed the oldest backup, and the
\* chain is full again.
C3_Witness ==
    /\ \E k \in OpsAt("remove", "size") : call.ops[k].ok
    /\ call.rotErr = ""
    /\ Cardinality(FilesOf(call.date)) = LOG_MAX_ROTATE_FILE_NUM

\* The bytes of the calls a..b of Write, as the history of sizes gives them.
RECURSIVE Bytes(_, _)
Bytes(a, b) == IF a > b THEN <<>> ELSE Bytes(a, b - 1) \o [k \in 1..hist[b] |-> b]
\* The number of those bytes.
RECURSIVE Sum(_, _)
Sum(a, b) == IF a > b THEN 0 ELSE Sum(a, b - 1) + hist[b]
\* The calls after which the running count of the day is above the threshold.
Crossings == {k \in 1..Len(hist) : Sum(1, k) > LOG_MAX_FILE_SIZE}
\* The first of them.
Cross == CHOOSE k \in Crossings : \A j \in Crossings : k <= j
Today == DateNames[1]

\* C4: on one faultless day, from an empty directory: as long as no Write
\* was issued after the count went above the threshold, the live file is the
\* only file and holds (with the buffer) every byte written; once writes
\* were issued after the crossing and their own count has not gone above the
\* threshold before the last of them, exactly the files of index 0 and 1
\* exist, index 1 holds exactly the bytes written up to the crossing write,
\* and the live file (with the buffer) exactly the bytes written after it.
C4_RotateOnceAfterCrossing ==
    /\ (wseq >= 1 /\ (Crossings = {} \/ Cross = wseq))
       => /\ FilesOf(Today) = {0}
          /\ disk[logFilePath(Today, 0)] \o buffer.buf = Bytes(1, wseq)
          /\ rotated = <<>>
    /\ (Crossings # {} /\ Cross < wseq /\ Sum(Cross + 1, wseq - 1) <= LOG_MAX_FILE_SIZE)
       => /\ FilesOf(Today) = {0, 1}
          /\ disk[logFilePath(Today, 1)] = Bytes(1, Cross)
          /\ disk[logFilePath(Today, 0)] \o buffer.buf = Bytes(Cross + 1, wseq)
          /\ rotated = <<Bytes(1, Cross)>>

\* Three writes of one unit (40 bytes against a threshold of 100) and a
\* fourth: index 1 holds the three units (120 bytes), the live file the rest.
C4_Witness ==
    /\ hist = <<1, 1, 1, 1>>
    /\ Len(disk[logFilePath(Today, 1)]) = 3
    /\ disk[logFilePath(Today, 0)] \o buffer.buf = <<4>>

\* C5 as stated: with depth 2, after the fifth size rollover of one day only
\* index 0 and index 1 exist, the content moved by the first three rollovers
\* is gone, and all later content (that of the fourth and fifth rollover and
\* what was written since) is still there.
C5_ThreeOldestGone ==
    (LOG_MAX_ROTATE_FILE_NUM = 2 /\ Len(rotated) = 5)
    => /\ FilesOf(Today) = {0, 1}
       /\ \A k \in 1..3 : Range(rotated[k]) \cap OnDisk = {}
       /\ \A k \in 4..5 : Range(rotated[k]) \subseteq OnDisk
       /\ Range(live) \subseteq OnDisk \cup Range(buffer.buf)

\* C5 amended: with depth 2, after the fifth size rollover of one day only
\* index 0 and index 1 exist, the content moved by the first four rollovers
\* is gone, index 1 holds the content moved by the fifth, and the live file
\* (with the buffer) holds what was written since.
C5_FourOldestGone ==
    (LOG_MAX_ROTATE_FILE_NUM = 2 /\ Len(rotated) = 5)
    => /\ FilesOf(Today) = {0, 1}
       /\ \A k \in 1..4 : Range(rotated[k]) \cap OnDisk = {}
       /\ disk[logFilePath(Today, 1)] = rotated[5]
       /\ disk[logFilePath(Today, 0)] \o buffer.buf = live

\* Five size rollovers have completed with depth 2, each having moved bytes.
C5_Witness ==
    /\ LOG_MAX_ROTATE_FILE_NUM = 2
    /\ Len(rotated) = 5
    /\ \A k \in 1..5 : rotated[k] # <<>>

\* C6: for every date, the bytes of a file of higher index were all written
\* before the bytes of a file of lower index; the open handle is the live
\* file of the active date; the renames of a rotation check move index i to
\* i+1 in the order of falling i; and none of them replaced an existing file.
C6_RecencyOrder ==
    /\ \A d \in Dates : \A i \in FilesOf(d) : \A j \in FilesOf(d) :
          i < j => \A a \in Range(disk[logFilePath(d, j)]) :
                      \A b \in Range(disk[logFilePath(d, i)]) : a < b
    /\ file.st = "open"
          => file.date = currentDate /\ logFilePath(currentDate, 0) \in DOMAIN disk
    /\ \A k \in OpsAt("rename", "size") : \A l \in OpsAt("rename", "size") :
          k < l => call.ops[k].path[2] > call.ops[l].path[2]
    /\ \A k \in OpsAt("rename", "size") : ~call.ops[k].over

\* Three non-empty files of one date after a size rollover that shifted two.
C6_Witness ==
    /\ Cardinality(OpsAt("rename", "size")) = 2
    /\ call.rotErr = ""
    /\ FilesOf(call.date) = {0, 1, 2}
    /\ \A i \in 0..2 : disk[logFilePath(call.date, i)] # <<>>

\* C7: a Write whose rotation check failed returned 0 and that error, wrote
\* one line, the error, to standard error, left its payload in no buffer and
\* no file, and left the byte counter as it found it.
C7_RejectedWrite ==
    (wseq >= 1 /\ call.rotErr # "")
    => /\ call.n = 0
       /\ call.err = call.rotErr
       /\ Len(stderr) = call.pre.nerr + 1
       /\ stderr[Len(stderr)] = call.rotErr
       /\ wseq \notin OnDisk \cup Range(buffer.buf)
       /\ hist[wseq] = 0
       /\ nbytes = call.pre.nbytes

\* A Write was rejected while the counter was not zero.
C7_Witness ==
    /\ wseq >= 1
    /\ call.rotErr \in InjectedErrors
    /\ call.pre.nbytes > 0

\* C8: after a Write whose rotation check was aborted by an error, efh.file
\* is nil.
C8_NilAfterAbort ==
    (wseq >= 1 /\ call.rotErr # "") => file = NilFile

\* C9: a Write on a file system that performs every operation, issued after
\* a Write whose rotation check failed on a file-system error, succeeds.
C9_RecoversAfterFailure ==
    (/\ wseq >= 2
     /\ call.prevRotErr \in InjectedErrors
     /\ call.fault = NoFault
     /\ faults <= 1)
    => call.err = ""

\* C10: no rotation check runs both the date rollover and the size rollover.
C10_OneRolloverPerCheck ==
    ~(OpsAt("close", "date") # {} /\ OpsAt("close", "size") # {})

\* C11. Invariant I1: between the operations of the sink the active handle is
\* non-nil exactly when the active date is non-empty, is today's date, and the
\* byte counter was at most the threshold when the last rotation check ended.
C11_HandleIffDateAndSize ==
    file # NilFile <=>
        /\ currentDate # ""
        /\ currentDate = getTimeNowDate
        /\ ~sizeExceeded(call.checked)

\* The file system with only the writes to the file failing or not.
Writes(failing) == [NoFault EXCEPT !.write = failing]

\* C12. Flush is idempotent: in every state of the sink, two calls of Flush
\* in a row leave the same directory content and the same sink as the first
\* call alone, whether or not the writes of either call fail.
C12_FlushIdempotent ==
    \A first, second \in BOOLEAN :
        efhFlush(efhFlush(Sink, Writes(first)), Writes(second)) = efhFlush(Sink, Writes(first))

\* A Flush has moved the buffered byte of the only Write into the file.
C12_Witness ==
    /\ hist = <<1>>
    /\ file.st = "open"
    /\ buffer.buf = <<>>
    /\ disk[logFilePath(currentDate, 0)] = <<1>>

\* The goroutines that are between el.mutex.Lock() and el.mutex.Unlock(): the
\* only places a call of Write (with its rotation check) or Flush of the sink
\* is made from.
InSink == {p \in Procs : pc[p].at \in {"header", "body", "newline", "flush", "unlock"}}

\* C13. Mutual exclusion: with the callers of Print, Printf and Flush and the
\* flush daemon running concurrently on one logger, at most one goroutine is
\* inside the sink at any time, and the mutex is locked while it is.
C13_MutualExclusion ==
    /\ Cardinality(InSink) <= 1
    /\ InSink # {} => mutex

\* One caller is between the two Writes of its message while the other
\* caller and the daemon are blocked in Lock.
C13_Witness ==
    /\ \E p \in Callers : At(p, "body") /\ \A q \in Callers \ {p} : At(q, "lock")
    /\ At(Daemon, "lock")

\* The files that hold a byte of the Write numbered t.
FilesWith(t) == {f \in DOMAIN disk : t \in Range(disk[f])}

\* The header of the message m is in one file and bytes of its body are in
\* another one.
Split(m) ==
    \E t \in (m.first + 1)..m.last :
        \E f \in FilesWith(m.first) : \E g \in FilesWith(t) : f # g

\* Some logged message has its header and its body in two files.
HeaderBodySplit == \E k \in 1..Len(msgs) : Split(msgs[k])

\* C14. Each message logged through Print or Printf reaches the sink as one
\* line in a single Write payload: the rotation check runs once per message,
\* and the header and the body of a message are never in two different files.
C14_OneWritePerMessage ==
    \A k \in 1..Len(msgs) :
        /\ msgs[k].last = msgs[k].first
        /\ ~Split(msgs[k])

\* C15. File system errors never crash the logger: under every sequence of
\* Write and Flush and every pattern of failing open, close, remove, rename,
\* stat and write, no call dereferences a nil buffer or panics (a non-nil
\* handle always comes with a buffer), and a failure of the rotation check
\* is returned as the error of the Write, which accepts no byte.
C15_NoPanic ==
    /\ ~Panicked
    /\ call.err # "panic"
    /\ call.rotErr # "panic"
    /\ file # NilFile => buffer.alloc
    /\ call.rotErr # "" => call.err = call.rotErr /\ call.n = 0

\* The file system has failed during MaxFaults calls, the last of them a
\* Write that returned the error of a file operation of its rotation check.
C15_Witness ==
    /\ faults = MaxFaults
    /\ call.fault.op # "none"
    /\ call.rotErr \in InjectedErrors
    /\ call.err = call.rotErr
    /\ ~Panicked

\* C16. After flag.Parse the package-level logger creates its files in the
\* directory given by -logPath (the current directory when the flag is not
\* given): the base path of the sink is the parsed value of the flag.
C16_PathIsFlagValue == parsed => efhPath = logPath

\* The name of the active file.
Active == logFilePath(file.date, 0)

\* What a call of Flush may change: bytes leave the buffer (or the writer
\* keeps them with its error) and are appended to the active file.
FlushFrame ==
    /\ file' = file
    /\ currentDate' = currentDate
    /\ nbytes' = nbytes
    /\ live' = live
    /\ DOMAIN disk' = DOMAIN disk
    /\ \A f \in DOMAIN disk : f # Active => disk'[f] = disk[f]
    /\ file.st = "open" => disk'[Active] \o buffer'.buf = disk[Active] \o buffer.buf
    /\ file.st # "open" => disk' = disk /\ buffer' = buffer

\* C17. Frame of Flush: a call of Flush (a step of the sink that is neither
\* a Write nor a midnight) never rotates; it leaves the handle, the active
\* date, the byte counter and the set of file names as they are, only moves
\* buffered bytes into the active file, and changes nothing when no file is
\* open.
C17_FlushFrame == [][(wseq' = wseq /\ now' = now) => FlushFrame]_vars

\* A Flush has moved the buffered bytes of two Writes into the active file.
C17_Witness ==
    /\ hist = <<1, 1>>
    /\ file.st = "open"
    /\ nbytes = 2
    /\ buffer.buf = <<>>
    /\ disk[Active] = <<1, 2>>

\* C18. Size accounting: whenever a file is open the byte counter is the
\* number of bytes accepted for it since it was opened, those flushed to it
\* and those pending in the buffer (live is their history: it is emptied
\* when a file is opened and grows by the bytes a Write accepted).
C18_CounterIsAccepted == file.st = "open" => nbytes = Len(live)

\* The errors of Close on a nil and on an already closed *os.File.
BadClose == {"invalid argument", "file already closed"}

\* The k-th file operation of the last rotation check found the handle nil:
\* the sink held none on entry or a Close before it succeeded.
HandleReleased(k) ==
    \/ call.pre.file = NilFile
    \/ \E j \in 1..(k - 1) : call.ops[j].op = "close" /\ call.ops[j].ok

\* C19. Handle ownership: the sink opens a file only when it holds no handle
\* (so it holds at most one open handle and closes each before the next is
\* opened), a non-nil handle it holds is never an already closed one, and
\* Close is never called on a nil or already closed handle.
C19_HandleOwnership ==
    /\ \A k \in 1..Len(call.ops) : (call.ops[k].op = "open" /\ call.ops[k].ok) => HandleReleased(k)
    /\ file.st # "closed"
    /\ call.rotErr \notin BadClose

\* The numbers the calls of Write of the logger's callers can have.
Tags == 1..(3 * MaxLiveMsgs)

\* C20. Eventual flush: with a fair flush daemon and no failing operation,
\* every byte a Write accepted into the buffer is eventually in a file of
\* the directory, even when no further Write is made.
C20_EventualFlush == \A t \in Tags : (t \in Range(buffer.buf)) ~> (t \in OnDisk)

\* The callers have made one call, a Print whose two Writes stayed in the
\* buffer, and the daemon's Flush has put them into the file.
C20_Witness ==
    /\ nmsg = 1
    /\ Len(msgs) = 1
    /\ hist = <<1, 1>>
    /\ At(Daemon, "unlock")
    /\ buffer.buf = <<>>
    /\ disk[Active] = <<1, 2>>
====
